---- MODULE Spec2Model ----
(***************************************************************************)
(* pr-automator: the provider registry (ai-providers.js), the provider     *)
(* invocation analyzeChangesWithAI and the response parser inside          *)
(* generatePRDetails (pr-generator.js), the ConfigManager (config.js) and  *)
(* the config and create commands (cli.js).                                *)
(*                                                                         *)
(* A JavaScript string is a sequence of symbols (single characters for the *)
(* texts the parser works on).  A JavaScript value is a record tagged by   *)
(* t: "null", "undefined", "string", "array" or "object".                  *)
(***************************************************************************)
EXTENDS Integers, Sequences, FiniteSets, TLC

VARIABLES
    aiProvider,    \* the provider identifier handed to generatePRDetails
    apiKey,        \* the credential handed to generatePRDetails
    model,         \* the model name handed to generatePRDetails
    pc,            \* position of the run: "generate", "awaitPost", "generated", "rejected";
                   \* of the create command also "create", "ghCreate", "ghView", "exit"
    httpRequests,  \* the axios.post calls issued so far, in order
    response,      \* how the awaited axios.post settled (Undefined before it settles)
    aiResponse,    \* the value analyzeChangesWithAI returned (Undefined before it returns)
    errorLog,      \* the console.error lines written by pr-generator.js
    prDetails,     \* the value generatePRDetails returned (Undefined before it returns)
    thrown,        \* the exception a rejected generatePRDetails carries (Undefined if none)
    messages,      \* the chat messages handed to a descriptor's buildPayload
    payload,       \* the request body buildPayload returned (Undefined before it returns)
    config,        \* this.config of the ConfigManager instance of the process
    configFile,    \* the file ~/.pr-automator: Undefined when absent, else its content
    opsDone,       \* the number of operations or commands carried out so far
    lastCommand,   \* the last cli config command and the file it found (Undefined if none)
    launchEnv,     \* the environment variables the create command was launched with
    processEnv,    \* process.env of the create command
    dryRun,        \* options.dryRun of the create command
    depsOk,        \* whether git and gh are installed
    changedFiles,  \* what git diff --name-only origin/main HEAD lists
    bodyFile,      \* the file ./pr_body.md: Undefined when absent, else its content
    ghCommands,    \* the gh commands createPR has launched, in order
    exitCode,      \* the exit code of the create command (0 unless process.exit(1))
    printed        \* the console lines written by cli.js and createPR

\* the state of a call of buildPayload
payloadVars == <<messages, payload>>

\* the state of the ConfigManager and of its file
configVars == <<config, configFile, opsDone, lastCommand>>

\* the state of a call of generatePRDetails
runVars == <<aiProvider, apiKey, model, httpRequests, response, aiResponse,
             errorLog, prDetails, thrown>>

\* the state of the create command around the run
cliVars == <<launchEnv, processEnv, dryRun, depsOk, changedFiles, bodyFile,
             ghCommands, exitCode, printed>>

vars == <<pc, runVars, payloadVars, configVars, cliVars>>

-----------------------------------------------------------------------------
(* Bounds *)

\* the longest raw AI text, counted in pieces of TextPieces
MaxPieces == 4

\* the longest message sequence handed to buildPayload
MaxMessages == 3

\* the longest sequence of ConfigManager operations, and of cli config commands
MaxOps == 2

\* the longest raw AI text of a run of the create command, in pieces
MaxReplyPieces == 2

-----------------------------------------------------------------------------
(* JavaScript values *)

Null == [t |-> "null"]

Undefined == [t |-> "undefined"]

Str(s) == [t |-> "string", s |-> s]

Arr(items) == [t |-> "array", items |-> items]

\* JavaScript truthiness of the values the model holds
Truthy(v) ==
    CASE v.t = "null" -> FALSE
      [] v.t = "undefined" -> FALSE
      [] v.t = "string" -> v.s # <<>>
      [] OTHER -> TRUE

-----------------------------------------------------------------------------
(* String primitives used by the parser *)

IsWhitespace(c) == c \in {" ", "\n", "\t", "\r"}

\* String.prototype.trim
Trim(s) ==
    LET keep == {i \in 1..Len(s) : ~IsWhitespace(s[i])}
    IN  IF keep = {} THEN <<>>
        ELSE LET lo == CHOOSE i \in keep : \A j \in keep : i <= j
                 hi == CHOOSE i \in keep : \A j \in keep : i >= j
             IN  SubSeq(s, lo, hi)

LowerChar(c) ==
    CASE c = "T" -> "t"
      [] c = "I" -> "i"
      [] c = "L" -> "l"
      [] c = "E" -> "e"
      [] c = "X" -> "x"
      [] OTHER -> c

\* String.prototype.toLowerCase
ToLowerCase(s) == [i \in 1..Len(s) |-> LowerChar(s[i])]

\* String.prototype.startsWith
StartsWith(s, prefix) ==
    /\ Len(s) >= Len(prefix)
    /\ SubSeq(s, 1, Len(prefix)) = prefix

\* String.prototype.endsWith
EndsWith(s, suffix) ==
    /\ Len(s) >= Len(suffix)
    /\ SubSeq(s, Len(s) - Len(suffix) + 1, Len(s)) = suffix

\* String.prototype.substring(n): the string from the 0-based index n on
Substring(s, n) == SubSeq(s, n + 1, Len(s))

RECURSIVE Split(_)
\* String.prototype.split('\n'): always at least one line
Split(s) ==
    LET nl == {i \in 1..Len(s) : s[i] = "\n"}
    IN  IF nl = {} THEN <<s>>
        ELSE LET i == CHOOSE k \in nl : \A j \in nl : k <= j
             IN  <<SubSeq(s, 1, i - 1)>> \o Split(SubSeq(s, i + 1, Len(s)))

RECURSIVE Join(_)
\* Array.prototype.join('\n')
Join(lines) ==
    IF lines = <<>> THEN <<>>
    ELSE IF Len(lines) = 1 THEN lines[1]
    ELSE lines[1] \o <<"\n">> \o Join(Tail(lines))

\* Array.prototype.slice(start), start a 0-based index
Slice(lines, start) == SubSeq(lines, start + 1, Len(lines))

-----------------------------------------------------------------------------
(* ai-providers.js: the provider registry *)

\* Object.keys(AI_CONFIG): the own keys of the object literal, in insertion order
OwnProviderKeys == <<"deepseek", "openai", "openrouter", "gemini">>

\* AI_CONFIG is an ordinary object literal, so it inherits the properties of
\* Object.prototype; each of them is a function or an object (truthy) that has
\* no url, buildHeaders, buildPayload or extractContent of its own
InheritedKeys ==
    {"constructor", "toString", "valueOf", "hasOwnProperty", "__proto__"}

OpenAIStyle == "choices[0].message.content"

AggregationStyle == "candidates[0].content.parts[0].text"

\* the descriptors of the object literal AI_CONFIG
AI_CONFIG ==
    [deepseek |->
        [t |-> "object", name |-> "DeepSeek", urlIsFunction |-> FALSE,
         url |-> "https://api.deepseek.com/v1/chat/completions",
         bearer |-> TRUE, extractContent |-> OpenAIStyle,
         defaultModel |-> "deepseek-chat"],
     openai |->
        [t |-> "object", name |-> "OpenAI", urlIsFunction |-> FALSE,
         url |-> "https://api.openai.com/v1/chat/completions",
         bearer |-> TRUE, extractContent |-> OpenAIStyle,
         defaultModel |-> "gpt-4-turbo"],
     openrouter |->
        [t |-> "object", name |-> "OpenRouter", urlIsFunction |-> FALSE,
         url |-> "https://openrouter.ai/api/v1/chat/completions",
         bearer |-> TRUE, extractContent |-> OpenAIStyle,
         defaultModel |-> "google/gemini-pro"],
     gemini |->
        [t |-> "object", name |-> "Google Gemini", urlIsFunction |-> TRUE,
         url |-> "https://generativelanguage.googleapis.com/v1beta/models/",
         bearer |-> FALSE, extractContent |-> AggregationStyle,
         defaultModel |-> "gemini-pro"]]

\* the value of a property found on Object.prototype
InheritedProperty == [t |-> "inherited"]

\* AI_CONFIG[provider]: own property first, then the prototype chain
PropertyLookup(provider) ==
    IF provider \in DOMAIN AI_CONFIG THEN AI_CONFIG[provider]
    ELSE IF provider \in InheritedKeys THEN InheritedProperty
    ELSE Undefined

\* return AI_CONFIG[provider] || null
getProviderConfig(provider) ==
    IF Truthy(PropertyLookup(provider)) THEN PropertyLookup(provider) ELSE Null

\* return provider in AI_CONFIG: the in operator walks the prototype chain
isValidProvider(provider) ==
    provider \in DOMAIN AI_CONFIG \/ provider \in InheritedKeys

\* return Object.keys(AI_CONFIG)
getProviderNames == OwnProviderKeys

\* the identifiers registered in the registry
RegisteredProviders == {getProviderNames[i] : i \in 1..Len(getProviderNames)}

-----------------------------------------------------------------------------
(* pr-generator.js: the response parser inside generatePRDetails *)

\* '**title:**'
TitleMarker == <<"*", "*", "t", "i", "t", "l", "e", ":", "*", "*">>

\* 'title:'
LegacyMarker == <<"t", "i", "t", "l", "e", ":">>

\* `feat: Default AI Generated Title`
DefaultTitle == <<"feat: Default AI Generated Title">>

\* lines.findIndex(line => line.toLowerCase().startsWith(marker)):
\* the 0-based index of the first such line, -1 when there is none
FindIndex(lines, marker) ==
    LET hits == {i \in 1..Len(lines) : StartsWith(ToLowerCase(lines[i]), marker)}
    IN  IF hits = {} THEN -1
        ELSE (CHOOSE i \in hits : \A j \in hits : i <= j) - 1

\* the search without toLowerCase: a case-sensitive startsWith
TitleLineIndex_CaseSensitive(lines) ==
    LET hits == {i \in 1..Len(lines) : StartsWith(lines[i], TitleMarker)}
    IN  IF hits = {} THEN -1
        ELSE (CHOOSE i \in hits : \A j \in hits : i <= j) - 1

\* const titleLineIndex = lines.findIndex(...'**title:**')
TitleLineIndex(lines) == FindIndex(lines, TitleMarker)

\* const oldTitleIndex = lines.findIndex(...'title:')
OldTitleIndex(lines) == FindIndex(lines, LegacyMarker)

\* the two searches in the opposite order: the legacy marker tried first
TitleOf_LegacyFirst(lines) ==
    IF OldTitleIndex(lines) # -1
    THEN Trim(Substring(lines[OldTitleIndex(lines) + 1], Len(LegacyMarker)))
    ELSE IF TitleLineIndex(lines) # -1
    THEN Trim(Substring(lines[TitleLineIndex(lines) + 1], Len(TitleMarker)))
    ELSE DefaultTitle

\* the value of title after the if / else of lines 239-249
TitleOf(lines) ==
    IF TitleLineIndex(lines) # -1
    THEN Trim(Substring(lines[TitleLineIndex(lines) + 1], Len(TitleMarker)))
    ELSE IF OldTitleIndex(lines) # -1
    THEN Trim(Substring(lines[OldTitleIndex(lines) + 1], Len(LegacyMarker)))
    ELSE DefaultTitle

\* the value of bodyStartIndex after the if / else of lines 239-249
BodyStartIndex(lines) ==
    IF TitleLineIndex(lines) # -1 THEN TitleLineIndex(lines) + 1
    ELSE IF OldTitleIndex(lines) # -1 THEN OldTitleIndex(lines) + 1
    ELSE 0

Fence == <<"-", "-", "-">>

\* .replace(/^---\n/, ''): the regular expression has no m flag
StripLeadingFence(s) ==
    IF StartsWith(s, Fence \o <<"\n">>) THEN Substring(s, Len(Fence) + 1) ELSE s

\* .replace(/\n---$/, '')
StripTrailingFence(s) ==
    IF EndsWith(s, <<"\n">> \o Fence) THEN SubSeq(s, 1, Len(s) - Len(Fence) - 1) ELSE s

\* lines.slice(bodyStartIndex).join('\n').trim().replace(..).replace(..).trim()
BodyOf(lines, bodyStartIndex) ==
    Trim(StripTrailingFence(StripLeadingFence(Trim(Join(Slice(lines, bodyStartIndex))))))

\* lines 232-254: the { title, body } built from a truthy aiResponse
ParsePRDetails(text) ==
    LET lines == Split(text)
    IN  [t |-> "object", title |-> TitleOf(lines),
         body |-> BodyOf(lines, BodyStartIndex(lines))]

\* lines 231-258: if (aiResponse) { ... return { title, body } } ... return null
PRDetailsFrom(value) ==
    IF Truthy(value) THEN ParsePRDetails(value.s) ELSE Null

-----------------------------------------------------------------------------
(* config.js: ConfigManager.  Keys, values and the file content are strings, *)
(* sequences of symbols in which "\n", "=", "#" and " " are symbols of       *)
(* their own.                                                                *)

RECURSIVE SplitOn(_, _)
\* String.prototype.split(separator)
SplitOn(s, separator) ==
    LET at == {i \in 1..Len(s) : s[i] = separator}
    IN  IF at = {} THEN <<s>>
        ELSE LET i == CHOOSE k \in at : \A j \in at : k <= j
             IN  <<SubSeq(s, 1, i - 1)>> \o SplitOn(SubSeq(s, i + 1, Len(s)), separator)

RECURSIVE JoinWith(_, _)
\* Array.prototype.join(separator)
JoinWith(parts, separator) ==
    IF parts = <<>> THEN <<>>
    ELSE IF Len(parts) = 1 THEN parts[1]
    ELSE parts[1] \o <<separator>> \o JoinWith(Tail(parts), separator)

KeyProvider == <<"AI_PROVIDER">>

KeyApiKey == <<"API_KEY">>

KeyModel == <<"MODEL">>

\* defaultConfig of loadConfig, and the object clear() assigns
DefaultConfig ==
    (KeyProvider :> Str(<<"deepseek">>))
    @@ (KeyApiKey :> Str(<<>>))
    @@ (KeyModel :> Str(<<"deepseek-chat">>))

\* this.config[key]: undefined for a key the object does not have
Property(object, key) ==
    IF key \in DOMAIN object THEN object[key] ELSE Undefined

\* `${value}` in a template literal
TemplateString(value) ==
    CASE value.t = "string" -> value.s
      [] value.t = "undefined" -> <<"undefined">>
      [] OTHER -> <<"null">>

\* the content saveConfig builds, lines 50-59: the three keys only
ConfigContent(object) ==
    JoinWith(<< <<"#", " PR Automator Configuration">>,
                <<"#", " This file contains your AI provider settings">>,
                <<"#", " Format: KEY", "=", "VALUE">>,
                <<>>,
                KeyProvider \o <<"=">> \o TemplateString(Property(object, KeyProvider)),
                KeyApiKey \o <<"=">> \o TemplateString(Property(object, KeyApiKey)),
                KeyModel \o <<"=">> \o TemplateString(Property(object, KeyModel)),
                <<>> >>, "\n")

\* saveConfig: the file after fs.writeFileSync(this.configPath, content)
SaveConfig(object) == Str(ConfigContent(object))

\* the lines loadConfig keeps: line.trim() && !line.startsWith('#')
ConfigLines(content) ==
    SelectSeq(SplitOn(content, "\n"),
              LAMBDA line : Trim(line) # <<>> /\ ~StartsWith(line, <<"#">>))

\* the body of lines.forEach, lines 29-32, applied to one line
ApplyLine(object, line) ==
    LET parts == SplitOn(line, "=")
        key == Head(parts)
        valueParts == Tail(parts)
    IN  IF key # <<>> /\ Len(valueParts) > 0
        THEN (Trim(key) :> Str(Trim(JoinWith(valueParts, "=")))) @@ object
        ELSE object

RECURSIVE ApplyLines(_, _)
ApplyLines(object, lines) ==
    IF lines = <<>> THEN object
    ELSE ApplyLines(ApplyLine(object, Head(lines)), Tail(lines))

\* loadConfig: the defaults when there is no file, else the defaults
\* overridden line by line
LoadConfig(file) ==
    IF file = Undefined THEN DefaultConfig
    ELSE ApplyLines(DefaultConfig, ConfigLines(file.s))

\* get(key): this.config[key] || ''
ConfigGet(object, key) ==
    IF Truthy(Property(object, key)) THEN Property(object, key) ELSE Str(<<>>)

\* getAll()
ConfigGetAll(object) ==
    [AI_PROVIDER |-> Property(object, KeyProvider),
     API_KEY |-> Property(object, KeyApiKey),
     MODEL |-> Property(object, KeyModel)]

\* isComplete(): config.API_KEY && config.AI_PROVIDER
ConfigIsComplete(object) ==
    Truthy(ConfigGetAll(object).API_KEY) /\ Truthy(ConfigGetAll(object).AI_PROVIDER)

\* this.config[key] = value
AssignProperty(object, key, value) == (key :> value) @@ object

\* delete this.config[key]
DeleteProperty(object, key) ==
    [k \in DOMAIN object \ {key} |-> object[k]]

\* the keys and values the operations are called with
ConfigKeys == {KeyProvider, KeyApiKey, KeyModel, <<"FOO">>}

ConfigValues ==
    {<<"k">>, <<" ", "k">>, <<"openai">>, <<"bogus">>, <<"constructor">>,
     <<"k", "\n", "AI_PROVIDER", "=", "bogus">>}

\* the property name a string spells; the strings of more than one symbol
\* used here spell no property of AI_CONFIG or of Object.prototype
SpelledName(string) ==
    IF string = <<>> THEN ""
    ELSE IF Len(string) = 1 THEN string[1]
    ELSE "(no property name)"

ConfigIdle ==
    /\ config = Undefined
    /\ configFile = Undefined
    /\ opsDone = 0
    /\ lastCommand = Undefined

\* process.env without AI_PROVIDER, API_KEY and MODEL
NoEnv == [key \in {} |-> Undefined]

\* no create command is under way
CliIdle ==
    /\ launchEnv = NoEnv
    /\ processEnv = NoEnv
    /\ dryRun = FALSE
    /\ depsOk = TRUE
    /\ changedFiles = <<>>
    /\ bodyFile = Undefined
    /\ ghCommands = <<>>
    /\ exitCode = 0
    /\ printed = <<>>

-----------------------------------------------------------------------------
(* The inputs of a run and the ways the awaited axios.post can settle *)

\* the raw AI texts are built from these pieces
TextPieces ==
    { <<"*", "*", "T", "i", "t", "l", "e", ":", "*", "*">>,
      <<"T", "I", "T", "L", "E", ":">>,
      <<" ">>, <<"\n">>, <<"x">>, <<"-", "-", "-">> }

RECURSIVE Concat(_)
Concat(pieces) ==
    IF pieces = <<>> THEN <<>> ELSE Head(pieces) \o Concat(Tail(pieces))

\* every text of at most MaxPieces pieces, the empty text included
Texts ==
    {Concat(ps) : ps \in UNION {[1..n -> TextPieces] : n \in 0..MaxPieces}}

\* provider identifiers a caller can pass: registered ones and others
ProviderIds ==
    RegisteredProviders \cup InheritedKeys \cup {"nonexistent", "", "DeepSeek"}

ApiKeys == {"sk-key"}

Models == {"deepseek-chat"}

\* response.data of a 2xx response: any JSON object, as far as the two
\* extraction paths can tell
ChoicesValues ==
    {Undefined, Arr(<<>>), Arr(<<[message |-> Undefined]>>),
     Arr(<<[message |-> [content |-> Undefined]]>>)}
    \cup {Arr(<<[message |-> [content |-> Str(text)]]>>) : text \in Texts}

CandidatesValues ==
    {Arr(<<>>), Arr(<<[content |-> Undefined]>>),
     Arr(<<[content |-> [parts |-> Arr(<<>>)]]>>)}
    \cup {Arr(<<[content |-> [parts |-> Arr(<<[text |-> Str(text)]>>)]]>>) :
            text \in Texts}

ResponseData ==
    {[t |-> "object", choices |-> c, candidates |-> Undefined] : c \in ChoicesValues}
    \cup {[t |-> "object", choices |-> Undefined, candidates |-> c] :
            c \in CandidatesValues}

\* error.response.data of a non-2xx response: an empty body, a text body, a
\* JSON object
ErrorBodies ==
    {Str(<<>>), Str(<<"Too Many Requests">>),
     [t |-> "object", error |-> Str(<<"invalid api key">>)]}

\* the errors axios.post rejects with: no response at all (transport), or a
\* response with a non-2xx status
AxiosErrors ==
    {[message |-> <<"Network Error">>, response |-> Undefined]}
    \cup {[message |-> <<"Request failed with status code 429">>,
           response |-> [t |-> "object", data |-> b]] : b \in ErrorBodies}

AxiosOutcomes ==
    {[ok |-> TRUE, data |-> d] : d \in ResponseData}
    \cup {[ok |-> FALSE, error |-> e] : e \in AxiosErrors}

-----------------------------------------------------------------------------
(* pr-generator.js: analyzeChangesWithAI *)

\* JSON.stringify(value, null, 2) of the bodies above
JSONStringify(value) ==
    IF value.t = "string" THEN <<"\"">> \o value.s \o <<"\"">>
    ELSE <<"{", "\n", " ", " ", "\"", "error", "\"", ":", " ", "\"">>
         \o value.error.s \o <<"\"", "\n", "}">>

TypeErrorReading(property) ==
    [message |-> <<"Cannot read properties of undefined (reading '", property, "')">>,
     response |-> Undefined]

\* providerConfig.extractContent(response): the value, or the TypeError the
\* property chain throws
ExtractContent(style, data) ==
    IF style = OpenAIStyle
    THEN CASE data.choices.t # "array" ->
                [threw |-> TRUE, error |-> TypeErrorReading("0")]
           [] data.choices.t = "array" /\ data.choices.items = <<>> ->
                [threw |-> TRUE, error |-> TypeErrorReading("message")]
           [] OTHER ->
                LET message == data.choices.items[1].message
                IN  IF message = Undefined
                    THEN [threw |-> TRUE, error |-> TypeErrorReading("content")]
                    ELSE [threw |-> FALSE, value |-> message.content]
    ELSE CASE data.candidates.t # "array" ->
                [threw |-> TRUE, error |-> TypeErrorReading("0")]
           [] data.candidates.t = "array" /\ data.candidates.items = <<>> ->
                [threw |-> TRUE, error |-> TypeErrorReading("content")]
           [] OTHER ->
                LET content == data.candidates.items[1].content
                IN  IF content = Undefined
                    THEN [threw |-> TRUE, error |-> TypeErrorReading("parts")]
                    ELSE IF content.parts.items = <<>>
                    THEN [threw |-> TRUE, error |-> TypeErrorReading("text")]
                    ELSE [threw |-> FALSE, value |-> content.parts.items[1].text]

\* the message alone, whatever the response
ErrorMessage_MessageOnly(error) == error.message

\* line 202: error.response ? JSON.stringify(error.response.data, null, 2) : error.message
ErrorMessage(error) ==
    IF Truthy(error.response) THEN JSONStringify(error.response.data)
    ELSE error.message

\* lines 201-205: the catch block logs the message and returns null
AnalyzeCatch(providerConfig, error) ==
    [value |-> Null,
     log |-> <<[at |-> "analyzeChangesWithAI", name |-> providerConfig.name,
                errorMessage |-> ErrorMessage(error)]>>]

\* extraction by optional chaining: a missing path gives undefined, nothing
\* is thrown and nothing is logged
AnalyzeSettled_OptionalChaining(providerConfig, outcome) ==
    IF outcome.ok
    THEN LET x == ExtractContent(providerConfig.extractContent, outcome.data)
         IN  IF x.threw THEN [value |-> Undefined, log |-> <<>>]
             ELSE [value |-> x.value, log |-> <<>>]
    ELSE AnalyzeCatch(providerConfig, outcome.error)

\* lines 199-205 once the awaited post has settled: the value returned and
\* the lines logged
AnalyzeSettled(providerConfig, outcome) ==
    IF outcome.ok
    THEN LET x == ExtractContent(providerConfig.extractContent, outcome.data)
         IN  IF x.threw THEN AnalyzeCatch(providerConfig, x.error)
             ELSE [value |-> x.value, log |-> <<>>]
    ELSE AnalyzeCatch(providerConfig, outcome.error)

\* messages.find(m => m.role === role)?.content: the content of the first
\* message with that role, undefined when there is none
FindContent(msgs, role) ==
    LET hits == {i \in 1..Len(msgs) : msgs[i].role = role}
    IN  IF hits = {} THEN Undefined
        ELSE Str(msgs[CHOOSE i \in hits : \A j \in hits : i <= j].content)

\* the content of the last message with that role
FindContent_Last(msgs, role) ==
    LET hits == {i \in 1..Len(msgs) : msgs[i].role = role}
    IN  IF hits = {} THEN Undefined
        ELSE Str(msgs[CHOOSE i \in hits : \A j \in hits : i >= j].content)

\* value || ''
OrEmpty(value) == IF Truthy(value) THEN value.s ELSE <<>>

\* the payload with the last system and the last user message
GeminiBuildPayload_LastMatch(modelName, msgs) ==
    [contents |->
        <<[parts |->
            <<[text |-> OrEmpty(FindContent_Last(msgs, "system")) \o <<"\n", "\n">>
                        \o OrEmpty(FindContent_Last(msgs, "user"))]>>]>>,
     generationConfig |-> [temperature |-> "0.7", maxOutputTokens |-> "2048"]]

\* AI_CONFIG.gemini.buildPayload, lines 63-76
GeminiBuildPayload(modelName, msgs) ==
    [contents |->
        <<[parts |->
            <<[text |-> OrEmpty(FindContent(msgs, "system")) \o <<"\n", "\n">>
                        \o OrEmpty(FindContent(msgs, "user"))]>>]>>,
     generationConfig |-> [temperature |-> "0.7", maxOutputTokens |-> "2048"]]

\* the chat messages a caller can hand to buildPayload
MessageRoles == {"system", "user", "assistant"}

MessageContents == {<<>>, <<"S">>, <<"U">>, <<"T">>}

ChatMessages == [role : MessageRoles, content : MessageContents]

MessageSequences == UNION {[1..n -> ChatMessages] : n \in 0..MaxMessages}

\* lines 190-195: the url, headers and payload of the request
BuildRequest(providerConfig, key, modelName) ==
    [url |-> IF providerConfig.urlIsFunction
             THEN <<providerConfig.url, modelName, ":generateContent?key=", key>>
             ELSE <<providerConfig.url>>,
     authorization |-> IF providerConfig.bearer THEN <<"Bearer ", key>> ELSE <<>>,
     model |-> IF providerConfig.extractContent = OpenAIStyle
               THEN <<modelName>> ELSE <<>>]

\* lines 257-258 of generatePRDetails
AbortLine == [at |-> "generatePRDetails", text |-> "Could not generate PR details from AI. Aborting."]

\* the lines generatePRDetails itself logs for the value it returns
AbortLog(details) == IF details = Null THEN <<AbortLine>> ELSE <<>>

-----------------------------------------------------------------------------
(* The run: generatePRDetails calling analyzeChangesWithAI *)

Init ==
    /\ aiProvider \in ProviderIds
    /\ apiKey \in ApiKeys
    /\ model \in Models
    /\ pc = "generate"
    /\ httpRequests = <<>>
    /\ response = Undefined
    /\ aiResponse = Undefined
    /\ errorLog = <<>>
    /\ prDetails = Undefined
    /\ thrown = Undefined
    /\ messages = <<>>
    /\ payload = Undefined
    /\ ConfigIdle
    /\ CliIdle

\* generatePRDetails up to its await: analyzeChangesWithAI lines 177-199.
\*  - no descriptor: logs, returns null, and generatePRDetails returns null;
\*  - a value inherited from Object.prototype: providerConfig.buildHeaders is
\*    not a function, the TypeError is thrown outside the try and both
\*    promises reject;
\*  - a descriptor: the request is posted and the function suspends.
GenerateCall ==
    /\ pc = "generate"
    /\ LET providerConfig == getProviderConfig(aiProvider)
       IN  CASE providerConfig = Null ->
                  /\ errorLog' = errorLog
                        \o <<[at |-> "analyzeChangesWithAI", provider |-> aiProvider,
                              text |-> "is not configured"]>>
                        \o AbortLog(PRDetailsFrom(Null))
                  /\ aiResponse' = Null
                  /\ prDetails' = PRDetailsFrom(Null)
                  /\ pc' = "generated"
                  /\ UNCHANGED <<httpRequests, thrown>>
             [] providerConfig = InheritedProperty ->
                  /\ thrown' = [t |-> "TypeError",
                                message |-> <<"providerConfig.buildHeaders is not a function">>]
                  /\ pc' = "rejected"
                  /\ UNCHANGED <<httpRequests, aiResponse, errorLog, prDetails>>
             [] OTHER ->
                  /\ httpRequests' = Append(httpRequests,
                                            BuildRequest(providerConfig, apiKey, model))
                  /\ pc' = "awaitPost"
                  /\ UNCHANGED <<aiResponse, errorLog, prDetails, thrown>>
    /\ UNCHANGED <<aiProvider, apiKey, model, response, payloadVars, configVars, cliVars>>

\* a catch block that posts the request once more instead of returning
PostSettled_Retry ==
    /\ pc = "awaitPost"
    /\ \E outcome \in AxiosOutcomes :
          LET providerConfig == getProviderConfig(aiProvider)
              settled == AnalyzeSettled(providerConfig, outcome)
              details == PRDetailsFrom(settled.value)
              retry == settled.log # <<>> /\ Len(httpRequests) < 2
          IN  /\ response' = outcome
              /\ aiResponse' = IF retry THEN aiResponse ELSE settled.value
              /\ errorLog' = IF retry THEN errorLog
                             ELSE errorLog \o settled.log \o AbortLog(details)
              /\ prDetails' = IF retry THEN prDetails ELSE details
              /\ httpRequests' =
                    IF retry
                    THEN Append(httpRequests, BuildRequest(providerConfig, apiKey, model))
                    ELSE httpRequests
              /\ pc' = IF retry THEN "awaitPost" ELSE "generated"
    /\ UNCHANGED <<aiProvider, apiKey, model, thrown, payloadVars, configVars, cliVars>>

\* the awaited post settles in one of the given ways and generatePRDetails
\* runs to its return: analyzeChangesWithAI lines 199-205, then
\* generatePRDetails lines 231-258
PostSettledFrom(outcomes) ==
    /\ pc = "awaitPost"
    /\ \E outcome \in outcomes :
          LET settled == AnalyzeSettled(getProviderConfig(aiProvider), outcome)
              details == PRDetailsFrom(settled.value)
          IN  /\ response' = outcome
              /\ aiResponse' = settled.value
              /\ errorLog' = errorLog \o settled.log \o AbortLog(details)
              /\ prDetails' = details
    /\ pc' = "generated"
    /\ UNCHANGED <<aiProvider, apiKey, model, httpRequests, thrown, payloadVars, configVars, cliVars>>

\* a call of generatePRDetails on its own: the post settles in any way
PostSettled == PostSettledFrom(AxiosOutcomes)

Next == GenerateCall \/ PostSettled

Spec == Init /\ [][Next]_vars

-----------------------------------------------------------------------------
(* A call of the aggregation-style buildPayload on any message sequence *)

InitPayload ==
    /\ messages \in MessageSequences
    /\ payload = Undefined
    /\ pc = "buildPayload"
    /\ aiProvider = "gemini"
    /\ apiKey \in ApiKeys
    /\ model \in Models
    /\ httpRequests = <<>>
    /\ response = Undefined
    /\ aiResponse = Undefined
    /\ errorLog = <<>>
    /\ prDetails = Undefined
    /\ thrown = Undefined
    /\ ConfigIdle
    /\ CliIdle

\* providerConfig.buildPayload(model, messages) of the gemini descriptor
BuildPayloadCall ==
    /\ pc = "buildPayload"
    /\ payload' = GeminiBuildPayload(model, messages)
    /\ pc' = "built"
    /\ UNCHANGED <<runVars, messages, configVars, cliVars>>

NextPayload == BuildPayloadCall

SpecPayload == InitPayload /\ [][NextPayload]_vars

-----------------------------------------------------------------------------
(* A ConfigManager instance under set, delete and clear *)

\* no call of generatePRDetails or of buildPayload is under way
RunIdle ==
    /\ aiProvider = ""
    /\ apiKey = ""
    /\ model = ""
    /\ httpRequests = <<>>
    /\ response = Undefined
    /\ aiResponse = Undefined
    /\ errorLog = <<>>
    /\ prDetails = Undefined
    /\ thrown = Undefined

PayloadIdle ==
    /\ messages = <<>>
    /\ payload = Undefined

\* new ConfigManager() with no file yet: this.config = this.loadConfig()
InitConfig ==
    /\ configFile = Undefined
    /\ config = LoadConfig(configFile)
    /\ opsDone = 0
    /\ lastCommand = Undefined
    /\ pc = "config"
    /\ RunIdle
    /\ PayloadIdle
    /\ CliIdle

\* set(key, value): assigns, then saveConfig()
ConfigSet ==
    /\ pc = "config"
    /\ opsDone < MaxOps
    /\ \E key \in ConfigKeys, value \in ConfigValues :
          /\ config' = AssignProperty(config, key, Str(value))
          /\ configFile' = SaveConfig(config')
    /\ opsDone' = opsDone + 1
    /\ UNCHANGED <<pc, runVars, payloadVars, lastCommand, cliVars>>

\* delete(key): deletes, then saveConfig()
ConfigDelete ==
    /\ pc = "config"
    /\ opsDone < MaxOps
    /\ \E key \in ConfigKeys :
          /\ config' = DeleteProperty(config, key)
          /\ configFile' = SaveConfig(config')
    /\ opsDone' = opsDone + 1
    /\ UNCHANGED <<pc, runVars, payloadVars, lastCommand, cliVars>>

\* clear(): assigns the defaults, then saveConfig()
ConfigClear ==
    /\ pc = "config"
    /\ opsDone < MaxOps
    /\ config' = DefaultConfig
    /\ configFile' = SaveConfig(config')
    /\ opsDone' = opsDone + 1
    /\ UNCHANGED <<pc, runVars, payloadVars, lastCommand, cliVars>>

NextConfig == ConfigSet \/ ConfigDelete \/ ConfigClear

SpecConfig == InitConfig /\ [][NextConfig]_vars

-----------------------------------------------------------------------------
(* cli.js: a sequence of `config <key> <value>` commands, one process each *)

\* the default configuration: no file yet
InitConfigCli ==
    /\ configFile = Undefined
    /\ config = LoadConfig(configFile)
    /\ opsDone = 0
    /\ lastCommand = Undefined
    /\ pc = "cli"
    /\ RunIdle
    /\ PayloadIdle
    /\ CliIdle

\* the config action with a key and a value, lines 42-51, in a new process
\* whose ConfigManager has loaded the file
ConfigCommand ==
    /\ pc = "cli"
    /\ opsDone < MaxOps
    /\ \E key \in ConfigKeys, value \in ConfigValues :
          /\ lastCommand' = [t |-> "object", key |-> key, value |-> value,
                              fileBefore |-> configFile]
          /\ IF key = KeyProvider /\ ~isValidProvider(SpelledName(value))
             THEN /\ config' = LoadConfig(configFile)
                  /\ configFile' = configFile
             ELSE /\ config' = AssignProperty(LoadConfig(configFile), key, Str(value))
                  /\ configFile' = SaveConfig(config')
    /\ opsDone' = opsDone + 1
    /\ UNCHANGED <<pc, runVars, payloadVars, cliVars>>

NextConfigCli == ConfigCommand

SpecConfigCli == InitConfigCli /\ [][NextConfigCli]_vars

-----------------------------------------------------------------------------
(* cli.js: the create command, with createPR and cleanup of pr-generator.js *)

\* the raw AI texts a run of the create command can receive
ReplyTexts ==
    {Concat(ps) : ps \in UNION {[1..n -> TextPieces] : n \in 0..MaxReplyPieces}}

\* how the awaited post can settle in such a run: the outcomes of
\* AxiosOutcomes whose text, if any, is one of ReplyTexts
CreateOutcomes ==
    {[ok |-> TRUE,
      data |-> [t |-> "object", choices |-> Undefined, candidates |-> Undefined]]}
    \cup {[ok |-> TRUE,
           data |-> [t |-> "object",
                     choices |-> Arr(<<[message |-> [content |-> Str(text)]]>>),
                     candidates |-> Undefined]] : text \in ReplyTexts}
    \cup {[ok |-> TRUE,
           data |-> [t |-> "object", choices |-> Undefined,
                     candidates |->
                         Arr(<<[content |-> [parts |-> Arr(<<[text |-> Str(text)]>>)]]>>)]] :
            text \in ReplyTexts}
    \cup {[ok |-> FALSE, error |-> e] : e \in AxiosErrors}

\* the configuration files a run can find: none, or one saveConfig wrote
CreateProviders == {<<"openai">>, <<"gemini">>, <<"nonexistent">>, <<"constructor">>}

CreateConfigs ==
    {(KeyProvider :> Str(p)) @@ (KeyApiKey :> Str(k)) @@ (KeyModel :> Str(<<"gpt-4">>)) :
        p \in CreateProviders, k \in {<<>>, <<"file-key">>}}

CreateConfigFiles == {Undefined} \cup {SaveConfig(c) : c \in CreateConfigs}

\* README lines 194-196: export AI_PROVIDER=..., API_KEY=..., MODEL=...
ExportedEnv ==
    (KeyProvider :> Str(<<"openai">>))
    @@ (KeyApiKey :> Str(<<"env-key">>))
    @@ (KeyModel :> Str(<<"gpt-4o">>))

LaunchEnvs == {NoEnv, ExportedEnv}

\* config.js getEnvVars(): the three properties getAll() returns
getEnvVars(object) ==
    (KeyProvider :> ConfigGetAll(object).AI_PROVIDER)
    @@ (KeyApiKey :> ConfigGetAll(object).API_KEY)
    @@ (KeyModel :> ConfigGetAll(object).MODEL)

\* setupEnvVars: Object.assign(process.env, config.getEnvVars()); process.env
\* turns every value assigned to it into a string
setupEnvVars(env, object) ==
    LET envVars == getEnvVars(object)
    IN  [key \in DOMAIN env \cup DOMAIN envVars |->
            IF key \in DOMAIN envVars THEN Str(TemplateString(envVars[key]))
            ELSE env[key]]

\* a console line of cli.js or of createPR, with the value it interpolates
Line(text, value) == [at |-> "cli", text |-> text, value |-> value]

\* a cleanup that leaves the file where it is
cleanup_KeepsFile(file) == file

\* cleanup(): the file ./pr_body.md afterwards (existsSync, then unlinkSync)
cleanup(file) == IF file # Undefined THEN Undefined ELSE file

\* what cleanup() prints
CleanupLog(file) ==
    IF file # Undefined THEN <<Line("Cleaned up temporary files", <<>>)>> ELSE <<>>

\* the gh commands of createPR
GhPrCreate(title) ==
    [command |-> "gh pr create", title |-> title, bodyFile |-> "./pr_body.md"]

GhPrView == [command |-> "gh pr view", title |-> <<>>, bodyFile |-> ""]

\* the process is launched: const config = new ConfigManager() has loaded
\* the file, nothing else has run
InitCreate ==
    /\ configFile \in CreateConfigFiles
    /\ config = LoadConfig(configFile)
    /\ opsDone = 0
    /\ lastCommand = Undefined
    /\ launchEnv \in LaunchEnvs
    /\ processEnv = launchEnv
    /\ dryRun \in BOOLEAN
    /\ depsOk \in BOOLEAN
    /\ changedFiles \in {<<>>, <<"a.js">>}
    /\ bodyFile = Undefined
    /\ ghCommands = <<>>
    /\ exitCode = 0
    /\ printed = <<>>
    /\ pc = "create"
    /\ RunIdle
    /\ PayloadIdle

\* the create action up to the call of generatePRDetails, lines 104-128:
\* setupEnvVars, the two checks that end in process.exit(1), getChangedFiles
\* (return through finally when it is empty), config.getAll()
CreateStart ==
    /\ pc = "create"
    /\ processEnv' = setupEnvVars(processEnv, config)
    /\ CASE ~depsOk ->
              /\ printed' = Append(printed, Line("Missing critical dependencies", <<>>))
              /\ exitCode' = 1
              /\ pc' = "exit"
              /\ UNCHANGED <<aiProvider, apiKey, model, bodyFile>>
         [] depsOk /\ ~ConfigIsComplete(config) ->
              /\ printed' = Append(printed, Line("Configuration is incomplete", <<>>))
              /\ exitCode' = 1
              /\ pc' = "exit"
              /\ UNCHANGED <<aiProvider, apiKey, model, bodyFile>>
         [] depsOk /\ ConfigIsComplete(config) /\ Len(changedFiles) = 0 ->
              /\ printed' = Append(printed, Line("No changes detected", <<>>))
                                \o CleanupLog(bodyFile)
              /\ bodyFile' = cleanup(bodyFile)
              /\ pc' = "exit"
              /\ UNCHANGED <<aiProvider, apiKey, model, exitCode>>
         [] OTHER ->
              /\ aiProvider' = SpelledName(ConfigGetAll(config).AI_PROVIDER.s)
              /\ apiKey' = SpelledName(ConfigGetAll(config).API_KEY.s)
              /\ model' = SpelledName(ConfigGetAll(config).MODEL.s)
              /\ pc' = "generate"
              /\ UNCHANGED <<printed, exitCode, bodyFile>>
    /\ UNCHANGED <<httpRequests, response, aiResponse, errorLog, prDetails, thrown,
                   payloadVars, configVars, launchEnv, dryRun, depsOk, changedFiles,
                   ghCommands>>

\* the awaited post of a run of the create command settles
PostSettledCreate == PostSettledFrom(CreateOutcomes)

\* the catch block of the create action, lines 152-154: process.exit(1)
\* ends the process before the finally block runs
CatchExit ==
    /\ printed' = Append(printed, Line("An unexpected error occurred", thrown.message))
    /\ exitCode' = 1
    /\ pc' = "exit"
    /\ UNCHANGED <<bodyFile, ghCommands>>

\* lines 147-149: no prDetails, process.exit(1)
AbortExit ==
    /\ printed' = Append(printed, Line("Failed to get PR content from AI", <<>>))
    /\ exitCode' = 1
    /\ pc' = "exit"
    /\ UNCHANGED <<bodyFile, ghCommands>>

\* lines 140-143, then finally: the body is printed, cleanup() runs
DryRunReturn ==
    /\ printed' = Append(printed, Line("Full PR Body:", prDetails.body))
                      \o CleanupLog(bodyFile)
    /\ bodyFile' = cleanup(bodyFile)
    /\ pc' = "exit"
    /\ UNCHANGED <<exitCode, ghCommands>>

\* createPR lines 268-273: the body is written to ./pr_body.md and
\* gh pr create is launched
CreatePRLaunch(title, body) ==
    /\ bodyFile' = Str(body)
    /\ ghCommands' = Append(ghCommands, GhPrCreate(title))
    /\ pc' = "ghCreate"
    /\ UNCHANGED <<exitCode, printed>>

\* a create action that goes on to createPR without prDetails
CreateResume_NoAbort ==
    /\ pc \in {"generated", "rejected"}
    /\ CASE pc = "rejected" -> CatchExit
         [] pc = "generated" /\ ~Truthy(prDetails) -> CreatePRLaunch(DefaultTitle, <<>>)
         [] pc = "generated" /\ Truthy(prDetails) /\ dryRun -> DryRunReturn
         [] OTHER -> CreatePRLaunch(prDetails.title, prDetails.body)
    /\ UNCHANGED <<runVars, payloadVars, configVars, launchEnv, processEnv, dryRun,
                   depsOk, changedFiles>>

\* a create action that does not look at options.dryRun
CreateResume_IgnoresDryRun ==
    /\ pc \in {"generated", "rejected"}
    /\ CASE pc = "rejected" -> CatchExit
         [] pc = "generated" /\ ~Truthy(prDetails) -> AbortExit
         [] OTHER -> CreatePRLaunch(prDetails.title, prDetails.body)
    /\ UNCHANGED <<runVars, payloadVars, configVars, launchEnv, processEnv, dryRun,
                   depsOk, changedFiles>>

\* the create action after the await, lines 129-156: generatePRDetails
\* rejected (catch), returned null (abort), or returned the details (dry run,
\* or createPR up to its gh pr create)
CreateResume ==
    /\ pc \in {"generated", "rejected"}
    /\ CASE pc = "rejected" -> CatchExit
         [] pc = "generated" /\ ~Truthy(prDetails) -> AbortExit
         [] pc = "generated" /\ Truthy(prDetails) /\ dryRun -> DryRunReturn
         [] OTHER -> CreatePRLaunch(prDetails.title, prDetails.body)
    /\ UNCHANGED <<runVars, payloadVars, configVars, launchEnv, processEnv, dryRun,
                   depsOk, changedFiles>>

\* gh pr create ends, createPR lines 273-279.  It succeeded: unlinkSync,
\* createPR returns, finally runs cleanup().  It failed: the catch block
\* launches gh pr view.
GhCreateDone ==
    /\ pc = "ghCreate"
    /\ \E succeeded \in BOOLEAN :
          IF succeeded
          THEN /\ bodyFile' = cleanup(Undefined)
               /\ printed' = Append(printed, Line("PR created successfully!", <<>>))
                                 \o CleanupLog(Undefined)
               /\ pc' = "exit"
               /\ UNCHANGED ghCommands
          ELSE /\ printed' = Append(printed, Line("PR creation failed", <<>>))
               /\ ghCommands' = Append(ghCommands, GhPrView)
               /\ pc' = "ghView"
               /\ UNCHANGED bodyFile
    /\ UNCHANGED <<runVars, payloadVars, configVars, launchEnv, processEnv, dryRun,
                   depsOk, changedFiles, exitCode>>

\* gh pr view ends, createPR lines 280-285: a PR was found or not, createPR
\* returns and finally runs cleanup()
GhViewDone ==
    /\ pc = "ghView"
    /\ \E found \in BOOLEAN :
          printed' = Append(printed,
                            IF found THEN Line("An existing PR was found", <<"url">>)
                            ELSE Line("Failed to create or find an existing PR", <<>>))
                        \o CleanupLog(bodyFile)
    /\ bodyFile' = cleanup(bodyFile)
    /\ pc' = "exit"
    /\ UNCHANGED <<runVars, payloadVars, configVars, launchEnv, processEnv, dryRun,
                   depsOk, changedFiles, ghCommands, exitCode>>

NextCreate ==
    \/ CreateStart
    \/ GenerateCall
    \/ PostSettledCreate
    \/ CreateResume
    \/ GhCreateDone
    \/ GhViewDone

SpecCreate == InitCreate /\ [][NextCreate]_vars

\* every step of the command is taken in the end: the handler runs to its
\* await, the post settles, gh ends
SpecCreateFair == SpecCreate /\ WF_vars(NextCreate)

-----------------------------------------------------------------------------
(* Vocabulary of the properties *)

\* generatePRDetails has settled by returning
Returned == pc = "generated"

\* the post of this run was issued and has settled
Posted == Returned /\ response # Undefined

\* the post settled with an HTTP-level or transport failure
RequestFailed == Posted /\ ~response.ok

\* the post succeeded and the extraction path is absent from the response
Malformed ==
    /\ Posted
    /\ response.ok
    /\ ExtractContent(AI_CONFIG[aiProvider].extractContent, response.data).threw

\* the invocation handed a text to the parser's caller
GotText == Returned /\ aiResponse.t = "string"

\* line begins with marker, compared case-insensitively
BeginsWith(line, marker) ==
    /\ Len(line) >= Len(marker)
    /\ \A i \in 1..Len(marker) : LowerChar(line[i]) = marker[i]

HasLine(lines, marker) == \E k \in 1..Len(lines) : BeginsWith(lines[k], marker)

\* the position (from 1) of the first line that begins with marker
FirstLine(lines, marker) ==
    CHOOSE k \in 1..Len(lines) :
        /\ BeginsWith(lines[k], marker)
        /\ \A j \in 1..(k - 1) : ~BeginsWith(lines[j], marker)

\* the rest of a line after a marker, trimmed
RestOf(line, marker) == Trim(SubSeq(line, Len(marker) + 1, Len(line)))

\* the lines after position k
LinesAfter(lines, k) == SubSeq(lines, k + 1, Len(lines))

\* the line of errorLog written by the catch block of analyzeChangesWithAI
CatchLines ==
    SelectSeq(errorLog, LAMBDA l : l.at = "analyzeChangesWithAI" /\ "errorMessage" \in DOMAIN l)

-----------------------------------------------------------------------------
(* Claims *)

\* C1: for a provider identifier that is not registered, the invocation
\* returns a failure (null) to its caller and no HTTP request is issued.
C1_UnknownProviderFailsWithoutRequest ==
    (pc # "generate" /\ aiProvider \notin RegisteredProviders) =>
        /\ httpRequests = <<>>
        /\ pc = "generated"
        /\ aiResponse = Null
        /\ thrown = Undefined

\* C2: isValidProvider(id) is true exactly for the identifiers that
\* getProviderNames returns.
C2_ValidExactlyWhenRegistered ==
    isValidProvider(aiProvider) <=> aiProvider \in RegisteredProviders

\* C3: an invocation with a registered provider issues exactly one POST, to
\* that provider; after a failure (HTTP, transport or extraction) no second
\* request is sent and the invocation returns the failure result null.
C3_ExactlyOnePost ==
    aiProvider \in RegisteredProviders =>
        /\ Len(httpRequests) <= 1
        /\ pc \in {"awaitPost", "generated"} =>
              /\ Len(httpRequests) = 1
              /\ httpRequests[1].url[1] = AI_CONFIG[aiProvider].url
        /\ pc # "rejected"
        /\ (RequestFailed \/ Malformed) =>
              /\ aiResponse = Null
              /\ thrown = Undefined
              /\ Len(CatchLines) = 1

C3_Witness ==
    /\ aiProvider \in RegisteredProviders
    /\ RequestFailed
    /\ Len(httpRequests) = 1
    /\ aiResponse = Null

\* C4 as stated: on a malformed response the invocation does not raise and
\* returns a failure the caller can tell apart from the one returned for an
\* HTTP-level or transport failure.
C4_MalformedToldApart ==
    Malformed =>
        /\ thrown = Undefined
        /\ \A e \in AxiosErrors :
              aiResponse # AnalyzeCatch(AI_CONFIG[aiProvider], e).value

\* C4 amended: on a malformed response the invocation does not raise; it
\* returns null, the very value returned for an HTTP-level or transport
\* failure, and only the logged message (the TypeError's) tells the cause.
C4_MalformedReturnsNull ==
    Malformed =>
        /\ thrown = Undefined
        /\ aiResponse = Null
        /\ \A e \in AxiosErrors :
              aiResponse = AnalyzeCatch(AI_CONFIG[aiProvider], e).value
        /\ Len(CatchLines) = 1
        /\ \E p \in {"0", "message", "content", "parts", "text"} :
              CatchLines[1].errorMessage = TypeErrorReading(p).message

C4_Witness ==
    /\ Malformed
    /\ response.data.choices = Arr(<<>>)
    /\ aiResponse = Null

\* the failed response has a body
HasUpstreamBody(error) ==
    /\ error.response # Undefined
    /\ error.response.data # Str(<<>>)

\* C5 as stated: the reported failure carries the upstream error body when
\* the failed response has one, and the transport error message otherwise.
C5_BodyElseTransportMessage ==
    RequestFailed =>
        /\ Len(CatchLines) = 1
        /\ CatchLines[1].errorMessage =
              IF HasUpstreamBody(response.error)
              THEN JSONStringify(response.error.response.data)
              ELSE response.error.message

\* C5 amended: the reported failure carries the JSON rendering of the
\* upstream response data whenever the error has a response (an empty body
\* included), and the transport error message only when it has none.
C5_ResponseElseTransportMessage ==
    RequestFailed =>
        /\ Len(CatchLines) = 1
        /\ CatchLines[1].errorMessage =
              IF response.error.response # Undefined
              THEN JSONStringify(response.error.response.data)
              ELSE response.error.message
        /\ response.error.response # Undefined =>
              CatchLines[1].errorMessage # response.error.message

C5_Witness ==
    /\ RequestFailed
    /\ response.error.response # Undefined
    /\ response.error.response.data = Str(<<>>)
    /\ CatchLines[1].errorMessage = <<"\"", "\"">>

\* C6: the title of every ParsedPR the parser returns is non-empty.
C6_TitleNonEmpty ==
    (GotText /\ prDetails.t = "object") => prDetails.title # <<>>

\* C7: for every text a successful invocation returns, the empty text
\* included, generatePRDetails returns a ParsedPR, never null.
C7_ParsingNeverFails ==
    GotText => (prDetails.t = "object" /\ thrown = Undefined)

\* C8: when some line begins with **Title:** (case-insensitively), the first
\* such line gives the title (the rest of the line, trimmed) and the body is
\* built from the lines after it only.
C8_TitleMarkerLine ==
    (GotText /\ HasLine(Split(aiResponse.s), TitleMarker)) =>
        LET lines == Split(aiResponse.s)
            k == FirstLine(lines, TitleMarker)
        IN  /\ prDetails.t = "object"
            /\ prDetails.title = RestOf(lines[k], TitleMarker)
            /\ prDetails.body = BodyOf(LinesAfter(lines, k), 0)

C8_Witness ==
    /\ GotText
    /\ HasLine(Split(aiResponse.s), TitleMarker)
    /\ FirstLine(Split(aiResponse.s), TitleMarker) = 2
    /\ prDetails.title = <<"x">>

\* C9: the legacy marker title: is used only when no line begins with
\* **Title:**; a **Title:** line wins even after an earlier title: line; with
\* legacy lines only, the first gives the title and the body starts after it.
C9_LegacyMarkerOnlyAsFallback ==
    GotText =>
        LET lines == Split(aiResponse.s)
        IN  /\ HasLine(lines, TitleMarker) =>
                  /\ prDetails.t = "object"
                  /\ prDetails.title =
                        RestOf(lines[FirstLine(lines, TitleMarker)], TitleMarker)
            /\ (~HasLine(lines, TitleMarker) /\ HasLine(lines, LegacyMarker)) =>
                  LET k == FirstLine(lines, LegacyMarker)
                  IN  /\ prDetails.t = "object"
                      /\ prDetails.title = RestOf(lines[k], LegacyMarker)
                      /\ prDetails.body = BodyOf(LinesAfter(lines, k), 0)

C9_Witness ==
    /\ GotText
    /\ LET lines == Split(aiResponse.s)
       IN  /\ HasLine(lines, TitleMarker)
           /\ HasLine(lines, LegacyMarker)
           /\ FirstLine(lines, LegacyMarker) < FirstLine(lines, TitleMarker)
           /\ prDetails.title = <<"x">>

\* C10: when no line begins with either marker, the parser returns the
\* default title and a body made of the entire raw text.
C10_NoMarkerFallback ==
    (GotText /\ ~HasLine(Split(aiResponse.s), TitleMarker)
             /\ ~HasLine(Split(aiResponse.s), LegacyMarker)) =>
        /\ prDetails.t = "object"
        /\ prDetails.title = DefaultTitle
        /\ prDetails.body = BodyOf(Split(aiResponse.s), 0)

\* the first and the last line of a text
FirstLineOf(s) == Split(s)[1]

LastLineOf(s) == Split(s)[Len(Split(s))]

\* C11: the body the parser returns never has a line made of three hyphens
\* only as its first or as its last line, also when the fence line is all
\* that is left of the body.
C11_FenceNeverLeaks ==
    (GotText /\ prDetails.t = "object") =>
        /\ FirstLineOf(prDetails.body) # Fence
        /\ LastLineOf(prDetails.body) # Fence

\* the messages with a role, in order
WithRole(msgs, role) == SelectSeq(msgs, LAMBDA m : m.role = role)

\* the content the first message of a role contributes, empty without one
Contribution(msgs, role) ==
    IF WithRole(msgs, role) = <<>> THEN <<>> ELSE Head(WithRole(msgs, role)).content

\* C12: the single nested text field of the aggregation-style payload is the
\* content of the first system message, a blank-line separator and the
\* content of the first user message, a missing role giving the empty string.
C12_AggregatedText ==
    pc = "built" =>
        /\ Len(payload.contents) = 1
        /\ Len(payload.contents[1].parts) = 1
        /\ payload.contents[1].parts[1].text =
              Contribution(messages, "system") \o <<"\n", "\n">>
              \o Contribution(messages, "user")

C12_Witness ==
    /\ pc = "built"
    /\ Len(WithRole(messages, "system")) = 2
    /\ WithRole(messages, "system")[1].content = <<"S">>
    /\ WithRole(messages, "system")[2].content = <<"T">>
    /\ WithRole(messages, "user") = <<>>
    /\ payload.contents[1].parts[1].text = <<"S", "\n", "\n">>

\* the create command has terminated
Exited == pc = "exit"

\* the provider invocation ended in a failure: analyzeChangesWithAI returned
\* null (no descriptor, request failed, malformed response) or threw
InvocationFailed == aiResponse = Null \/ thrown # Undefined

\* createPR has run: it wrote the body file or launched a gh command
CreatePRExecuted == ghCommands # <<>> \/ bodyFile # Undefined

\* the console shows this line
Printed(line) == \E i \in 1..Len(printed) : printed[i] = line

\* C13: in the create command, once the provider invocation has ended in a
\* failure, createPR is never executed in that run, and the run ends with
\* exit code 1.
C13_FailureAbortsWithErrorExit ==
    /\ [](InvocationFailed => ~CreatePRExecuted)
    /\ [](InvocationFailed /\ Exited => exitCode = 1)
    /\ (InvocationFailed ~> Exited)

\* a run whose request was posted and failed has terminated
C13_Witness ==
    /\ Exited
    /\ InvocationFailed
    /\ ~dryRun
    /\ response # Undefined
    /\ ~response.ok
    /\ exitCode = 1

\* C14: with --dry-run, createPR is never invoked, whatever the outcome of
\* the AI invocation; when the description was generated, the run prints
\* its body and ends without an error.
C14_DryRunNeverCreates ==
    dryRun =>
        /\ ~CreatePRExecuted
        /\ (Exited /\ Truthy(prDetails)) =>
              /\ Printed(Line("Full PR Body:", prDetails.body))
              /\ exitCode = 0

\* a dry run that generated a description has terminated
C14_Witness ==
    /\ dryRun
    /\ Exited
    /\ Truthy(prDetails)
    /\ httpRequests # <<>>

\* C15: when AI_PROVIDER, API_KEY and MODEL are set in the environment, the
\* create command (with its dependencies installed and files changed) calls
\* generatePRDetails with their values as provider, credential and model.
C15_EnvironmentUsed ==
    (/\ launchEnv = ExportedEnv
     /\ depsOk
     /\ Len(changedFiles) > 0
     /\ pc # "create") =>
        /\ aiProvider = SpelledName(launchEnv[KeyProvider].s)
        /\ apiKey = SpelledName(launchEnv[KeyApiKey].s)
        /\ model = SpelledName(launchEnv[KeyModel].s)

\* C16: after any sequence of set, delete and clear, a fresh ConfigManager
\* that loads the saved file returns from get(key) what the instance in
\* memory returns, for every key.
C16_PersistedEqualsInMemory ==
    opsDone > 0 =>
        \A key \in ConfigKeys :
            ConfigGet(LoadConfig(configFile), key) = ConfigGet(config, key)

\* the AI_PROVIDER a new process reads from the configuration file
StoredProvider == Property(LoadConfig(configFile), KeyProvider)

\* C17: `config AI_PROVIDER <value>` with a value isValidProvider rejects
\* leaves the configuration in memory and the file unchanged; hence, after
\* any sequence of config commands from the default configuration, the
\* stored AI_PROVIDER is a provider isValidProvider accepts.
C17_StoredProviderAlwaysValid ==
    /\ (/\ lastCommand # Undefined
        /\ lastCommand.key = KeyProvider
        /\ ~isValidProvider(SpelledName(lastCommand.value))) =>
            /\ configFile = lastCommand.fileBefore
            /\ config = LoadConfig(lastCommand.fileBefore)
    /\ StoredProvider.t = "string"
    /\ isValidProvider(SpelledName(StoredProvider.s))

====
